---- MODULE Spec2Model ----
(***************************************************************************)
(* Model of the generate-clients command (cmd/root.go) and of its helpers  *)
(* (util/util.go): one run of the pipeline                                 *)
(*   validate -> MkdirTemp -> Mkdir proto -> CloneService -> CopyProtobuf  *)
(*            -> GenerateCode -> CopyGeneratedFiles -> deferred clean-up.  *)
(* File names are sequences of dot-separated segments, file contents are   *)
(* sequences of bytes, a directory is a function from names to contents.   *)
(***************************************************************************)
EXTENDS Integers, Sequences, FiniteSets, TLC

\* Bounds of the model: longest file content, most entries of a directory.
MaxLen == 1
MaxFiles == 2
\* Most calls of CleanUpDirectories one caller makes on one path.
MaxCalls == 2
\* The most writes the compiler makes, and the bytes a pipe holds.
MaxWrites == 3
PipeCap == 1

Bytes == {0, 1}

\* util.go 14-19
LanguageGo == "golang"
LanguageRuby == "ruby"
LanguagePython == "python"
LanguageJava == "java"
LanguageJavascript == "javascript"

\* util.go 21-37
ServiceAudit == "audit"
ServiceAuthorization == "authorization"
ServiceCatalog == "catalog"
ServiceCategory == "category"
ServiceDataspec == "dataspec"
ServiceExports == "exports"
ServiceGrants == "grants"
ServiceJabba == "jabba"
ServiceOrganizations == "organizations"
ServiceParser == "parser"
ServiceQuery == "query"
ServiceReferences == "references"
ServiceSearch == "search"
ServiceSources == "sources"
ServiceTaskrunner == "taskrunner"
ServiceUploads == "uploads"
ServiceWarehouses == "warehouses"

\* Values the --language flag is given: the five constants, and "go", the
\* name the flag does not know.
Languages ==
  {LanguageGo, LanguageRuby, LanguagePython, LanguageJava, LanguageJavascript, "go"}

\* Values the --service flag is given: the seventeen constants and the
\* flag's default "all" (root.go 111).
Services ==
  {ServiceAudit, ServiceAuthorization, ServiceCatalog, ServiceCategory,
   ServiceDataspec, ServiceExports, ServiceGrants, ServiceJabba,
   ServiceOrganizations, ServiceParser, ServiceQuery, ServiceReferences,
   ServiceSearch, ServiceSources, ServiceTaskrunner, ServiceUploads,
   ServiceWarehouses, "all"}

\* util.go 41-48
IsValidLanguage(lang) ==
  lang \in {LanguageGo, LanguageRuby, LanguagePython, LanguageJava, LanguageJavascript}

\* util.go 51-59
IsValidPublicService(s) ==
  s \in {ServiceAuthorization, ServiceCatalog, ServiceCategory, ServiceDataspec,
         ServiceExports, ServiceGrants, ServiceOrganizations, ServiceQuery,
         ServiceReferences, ServiceSearch, ServiceSources, ServiceUploads,
         ServiceWarehouses}

\* util.go 62-70
IsValidPrivateService(s) ==
  s \in {ServiceAudit, ServiceJabba, ServiceParser, ServiceCatalog, ServiceCategory,
         ServiceExports, ServiceGrants, ServiceOrganizations, ServiceQuery,
         ServiceReferences, ServiceSources, ServiceWarehouses, ServiceTaskrunner}

(***************************************************************************)
(* Files and directories                                                   *)
(***************************************************************************)
\* filepath.Ext: the suffix from the last dot of the name, "" without a dot.
Ext(name) == IF Len(name) > 1 THEN "." \o name[Len(name)] ELSE ""

\* fmt.Sprintf("%s.proto", service), util.go 113
ProtoName(s) == <<s, "proto">>

\* File contents: byte sequences of at most MaxLen bytes.
Contents == UNION {[1..n -> Bytes] : n \in 0..MaxLen}

\* Entries a service keeps in proto/public or proto/private, in the order
\* os.ReadDir lists them (sorted by file name, upper case first).
SrcOrder == << <<"README", "md">>, <<"a", "proto">>, <<"b", "proto">> >>

\* Entries of the staging directory of service s, in os.ReadDir's order.
StagingOrder(s) == << <<s, "pb", "go">>, <<s, "proto">>, <<s, "twirp", "go">> >>

Range(seq) == {seq[i] : i \in DOMAIN seq}

\* A directory that does not exist, an empty one, one holding files.
NoDir == [exists |-> FALSE, files |-> <<>>]
EmptyDir == [exists |-> TRUE, files |-> <<>>]
DirOf(files) == [exists |-> TRUE, files |-> files]

\* The directories over a set of names with at most MaxFiles entries.
Dirs(names) ==
  {DirOf(f) : f \in UNION {[ns -> Contents] :
                             ns \in {x \in SUBSET names : Cardinality(x) <= MaxFiles}}}

\* os.ReadDir: the names of the directory, sorted.
ReadDir(dir, order) == SelectSeq(order, LAMBDA n : n \in DOMAIN dir.files)

WriteFile_NoTruncate(files, name, content) ==
  [x \in DOMAIN files \cup {name} |->
     IF x # name THEN files[x]
     ELSE IF x \in DOMAIN files /\ Len(files[x]) > Len(content)
          THEN content \o SubSeq(files[x], Len(content) + 1, Len(files[x]))
          ELSE content]

\* os.Create then io.Copy of n bytes: the file is truncated, then written.
WriteFile(files, name, content) ==
  [x \in DOMAIN files \cup {name} |-> IF x = name THEN content ELSE files[x]]

Min(a, b) == IF a < b THEN a ELSE b

(***************************************************************************)
(* State                                                                   *)
(***************************************************************************)
VARIABLES
  language, service, private,  \* the flags, root.go 12-17
  remote,        \* the service's repository on the remote host
  protoc,        \* what the installed protoc does when it is run
  outDir,        \* the directory cwd/outputPath
  pc,            \* position of rootCmd.Run
  err,           \* the variable err of rootCmd.Run ("" is nil)
  exitCode,      \* -1 while the process runs, then its exit code
  logs,          \* what the log package has written
  tmpDir,        \* whether the directory MkdirTemp made exists
  protoDir,      \* tmpDir/proto
  serviceDir,    \* tmpDir/<service>, the clone
  trace,         \* the stages entered, in order
  cleanupCalls,  \* calls of CleanUpDirectories
  outDirAtStart, \* outDir as the run found it
  opened,        \* source entries CopyProtobuf has opened
  written,       \* names CopyGeneratedFiles has created in outDir
  launched,      \* the commands started, each an argument vector
  child,         \* protoc: the writes it has still to do, "out" or "err" each
  outBuf,        \* bytes in the pipe of protoc's standard output
  errBuf,        \* bytes in the pipe of protoc's standard error
  childDone,     \* protoc has exited, the write ends of its pipes are closed
  gpc,           \* position of GenerateCode between Start and its return
  runs,          \* concurrent runs of the command, each a process of its own
  disk           \* the paths that exist when several runs share a machine

vars ==
  <<language, service, private, remote, protoc, outDir, pc, err, exitCode, logs,
    tmpDir, protoDir, serviceDir, trace, cleanupCalls, outDirAtStart, opened,
    written, launched, child, outBuf, errBuf, childDone, gpc, runs, disk>>

\* The variables of one run of rootCmd.Run, of the pipes between
\* GenerateCode and protoc, and of concurrent runs.
runVars ==
  <<language, service, private, remote, protoc, outDir, pc, err, exitCode, logs,
    tmpDir, protoDir, serviceDir, trace, cleanupCalls, outDirAtStart, opened,
    written, launched>>
pipeVars == <<child, outBuf, errBuf, childDone, gpc>>
machineVars == <<runs, disk>>

\* What no stage of rootCmd.Run changes.
flags ==
  <<language, service, private, remote, protoc, outDirAtStart, pipeVars, machineVars>>

\* No compiler is running; no other run is on the machine.
NoPipes ==
  /\ child = <<>> /\ outBuf = 0 /\ errBuf = 0 /\ childDone = FALSE /\ gpc = "idle"
NoMachine == runs = <<>> /\ disk = {}

NoTree == [exists |-> FALSE, public |-> NoDir, private |-> NoDir]
TreeOf(pub, priv) == [exists |-> TRUE, public |-> pub, private |-> priv]

Info(text, data) == [fatal |-> FALSE, text |-> text, data |-> data]
Fatal(text) == [fatal |-> TRUE, text |-> text, data |-> <<>>]

\* The part of the state a stage and its error branch work on.
Cur ==
  [tmpDir |-> tmpDir, protoDir |-> protoDir, serviceDir |-> serviceDir,
   outDir |-> outDir, err |-> err, logs |-> logs, trace |-> trace,
   cleanupCalls |-> cleanupCalls, exited |-> FALSE, exitCode |-> -1]

Commit(p, next) ==
  /\ tmpDir' = p.tmpDir
  /\ protoDir' = p.protoDir
  /\ serviceDir' = p.serviceDir
  /\ outDir' = p.outDir
  /\ err' = p.err
  /\ logs' = p.logs
  /\ trace' = p.trace
  /\ cleanupCalls' = p.cleanupCalls
  /\ exitCode' = p.exitCode
  /\ pc' = IF p.exited THEN "exit" ELSE next

Enter(p, stage) == [p EXCEPT !.trace = Append(@, stage)]

Fatalf_ExitZero(p, text) ==
  IF p.exited THEN p
  ELSE [p EXCEPT !.logs = Append(@, Fatal(text)), !.exited = TRUE, !.exitCode = 0]

\* log.Fatalf: write the message, then os.Exit(1); deferred calls do not run.
Fatalf(p, text) ==
  IF p.exited THEN p
  ELSE [p EXCEPT !.logs = Append(@, Fatal(text)), !.exited = TRUE, !.exitCode = 1]

Printf(p, text, data) ==
  IF p.exited THEN p ELSE [p EXCEPT !.logs = Append(@, Info(text, data))]

\* util.go 72-76: os.RemoveAll(dir), log.Fatalf when it fails.
CleanUpDirectories(p, rmOk) ==
  IF p.exited THEN p
  ELSE LET q == [p EXCEPT !.cleanupCalls = @ + 1, !.trace = Append(@, "destroy")]
       IN IF rmOk
          THEN [q EXCEPT !.tmpDir = FALSE, !.protoDir = NoDir, !.serviceDir = NoTree]
          ELSE Fatalf(q, "Could not remove directory")

(***************************************************************************)
(* The helpers of util.go. Each takes the faults the operating system may  *)
(* raise in it and returns the state it leaves and its error ("" is nil).  *)
(***************************************************************************)
NoFault == [at |-> <<>>, op |-> "none", n |-> 0]

\* The system calls of a copying loop that may fail: reading the directory,
\* and for the file `at': opening it, creating its copy, copying (after n bytes).
CopyFaults(names) ==
  {NoFault, [at |-> <<>>, op |-> "getwd", n |-> 0], [at |-> <<>>, op |-> "readdir", n |-> 0]}
    \cup {[at |-> f, op |-> o, n |-> 0] : f \in names, o \in {"open", "create"}}
    \cup {[at |-> f, op |-> "copy", n |-> k] : f \in names, k \in 0..MaxLen}

\* util.go 78-86: git clone of the service's repository into dir/<service>.
CloneCmd(s) == [prog |-> "git", flags |-> <<"clone">>, input |-> <<s, "git">>]

RECURSIVE CopyProtobufLoop_NoFilter(_, _, _, _, _)
CopyProtobufLoop_NoFilter(names, src, dst, fault, r) ==
  IF names = <<>> THEN r
  ELSE LET f == Head(names)
           hit == fault.at = f
           r1 == [r EXCEPT !.opened = @ \cup {f}]
       IN IF hit /\ fault.op = "open"
          THEN [r EXCEPT !.err = "cannot open source protobuf file"]
          ELSE IF hit /\ fault.op = "create"
          THEN [r1 EXCEPT !.err = "cannot create protobuf file"]
          ELSE IF hit /\ fault.op = "copy"
          THEN [r1 EXCEPT
                  !.files = WriteFile(@, dst, SubSeq(src[f], 1, Min(fault.n, Len(src[f])))),
                  !.err = "cannot copy protobuf file"]
          ELSE CopyProtobufLoop_NoFilter(Tail(names), src, dst, fault,
                                         [r1 EXCEPT !.files = WriteFile(@, dst, src[f])])

\* util.go 101-123, the loop over the directory's entries.
RECURSIVE CopyProtobufLoop(_, _, _, _, _)
CopyProtobufLoop(names, src, dst, fault, r) ==
  IF names = <<>> THEN r
  ELSE LET f == Head(names)
           hit == fault.at = f
           r1 == [r EXCEPT !.opened = @ \cup {f}]
       IN IF Ext(f) # ".proto"
          THEN CopyProtobufLoop(Tail(names), src, dst, fault, r)
          ELSE IF hit /\ fault.op = "open"
          THEN [r EXCEPT !.err = "cannot open source protobuf file"]
          ELSE IF hit /\ fault.op = "create"
          THEN [r1 EXCEPT !.err = "cannot create protobuf file"]
          ELSE IF hit /\ fault.op = "copy"
          THEN [r1 EXCEPT
                  !.files = WriteFile(@, dst, SubSeq(src[f], 1, Min(fault.n, Len(src[f])))),
                  !.err = "cannot copy protobuf file"]
          ELSE CopyProtobufLoop(Tail(names), src, dst, fault,
                                [r1 EXCEPT !.files = WriteFile(@, dst, src[f])])

\* util.go 89-94
ServiceProtoDir(tree, priv) == IF priv THEN tree.private ELSE tree.public

\* util.go 88-126
CopyProtobuf(p, s, priv, fault) ==
  LET dir == ServiceProtoDir(p.serviceDir, priv)
      r0 == [files |-> p.protoDir.files, opened |-> {}, err |-> ""]
      r == IF ~dir.exists \/ fault.op = "readdir"
           THEN [r0 EXCEPT !.err = "failed to read service protobuf directory"]
           ELSE CopyProtobufLoop(ReadDir(dir, SrcOrder), dir.files, ProtoName(s), fault, r0)
  IN [p |-> [p EXCEPT !.protoDir.files = r.files], opened |-> r.opened, err |-> r.err]

NoCmd == [prog |-> "", flags |-> <<>>, input |-> <<>>]

\* util.go 128-130
goGenerateCmd(s) ==
  [prog |-> "protoc",
   flags |-> <<"--twirp_out=paths=source_relative", "--go_out=paths=source_relative",
               "--proto_path">>,
   input |-> ProtoName(s)]

\* util.go 132-134
rubyGenerateCmd(s) ==
  [prog |-> "protoc", flags |-> <<"--proto_path", "--twirp_ruby_out", "--ruby_out">>,
   input |-> ProtoName(s)]

\* util.go 136-138
pythonGenerateCmd(s) ==
  [prog |-> "protoc", flags |-> <<"--proto_path", "--twirpy_out", "--python_out">>,
   input |-> ProtoName(s)]

\* util.go 140-142
javascriptGenerateCmd(s) ==
  [prog |-> "protoc",
   flags |-> <<"--proto_path", "--twirp_js_out", "--js_out=import_style=commonjs,binary">>,
   input |-> ProtoName(s)]

ProtocCmd_RubyForGo(lang, s) ==
  CASE lang = LanguageGo -> rubyGenerateCmd(s)
    [] lang = LanguageRuby -> rubyGenerateCmd(s)
    [] lang = LanguagePython -> pythonGenerateCmd(s)
    [] lang = LanguageJavascript -> javascriptGenerateCmd(s)
    [] OTHER -> NoCmd

ProtocCmd_JavaAsGo(lang, s) ==
  CASE lang = LanguageGo -> goGenerateCmd(s)
    [] lang = LanguageRuby -> rubyGenerateCmd(s)
    [] lang = LanguagePython -> pythonGenerateCmd(s)
    [] lang = LanguageJavascript -> javascriptGenerateCmd(s)
    [] OTHER -> goGenerateCmd(s)

\* util.go 146-157, the switch on the language.
ProtocCmd(lang, s) ==
  CASE lang = LanguageGo -> goGenerateCmd(s)
    [] lang = LanguageRuby -> rubyGenerateCmd(s)
    [] lang = LanguagePython -> pythonGenerateCmd(s)
    [] lang = LanguageJavascript -> javascriptGenerateCmd(s)
    [] OTHER -> NoCmd

GenFaults == {"none", "stdoutPipe", "stderrPipe", "start", "readOut", "readErr"}

RunProtoc_IntoOutput(p, run) ==
  [p EXCEPT !.outDir.files =
     [x \in DOMAIN @ \cup DOMAIN run.files |->
        IF x \in DOMAIN run.files THEN run.files[x] ELSE @[x]]]

\* The started compiler writes its files next to its input.
RunProtoc(p, run) ==
  [p EXCEPT !.protoDir.files =
     [x \in DOMAIN @ \cup DOMAIN run.files |->
        IF x \in DOMAIN run.files THEN run.files[x] ELSE @[x]]]

GenerateCode_StderrFails(p, lang, s, run, fault) ==
  LET cmd == ProtocCmd(lang, s)
      fail(q, l, e) == [p |-> q, launched |-> l, err |-> e]
      p1 == RunProtoc(p, run)
      p2 == IF Len(run.stdout) > 0 THEN Printf(p1, "", run.stdout) ELSE p1
      p3 == IF Len(run.stderr) > 0
            THEN Printf(p2, "Generator encountered error", run.stderr) ELSE p2
  IN IF cmd = NoCmd
     THEN fail(p, <<>>, "no command has been implemented for this language")
     ELSE IF fault = "stdoutPipe" THEN fail(p, <<>>, "failed to pipe command output")
     ELSE IF fault = "stderrPipe" THEN fail(p, <<>>, "failed to pipe command error output")
     ELSE IF fault = "start" THEN fail(p, <<>>, "failed to start client generator")
     ELSE IF fault = "readOut" THEN fail(p1, <<cmd>>, "failed to read output from command")
     ELSE IF fault = "readErr" THEN fail(p2, <<cmd>>, "failed to read error from command")
     ELSE IF run.exit # 0 \/ Len(run.stderr) > 0
     THEN fail(p3, <<cmd>>, "failed to run generator command")
     ELSE fail(p3, <<cmd>>, "")

\* util.go 144-193
GenerateCode(p, lang, s, run, fault) ==
  LET cmd == ProtocCmd(lang, s)
      fail(q, l, e) == [p |-> q, launched |-> l, err |-> e]
      p1 == RunProtoc(p, run)
      p2 == IF Len(run.stdout) > 0 THEN Printf(p1, "", run.stdout) ELSE p1
      p3 == IF Len(run.stderr) > 0
            THEN Printf(p2, "Generator encountered error", run.stderr) ELSE p2
  IN IF cmd = NoCmd
     THEN fail(p, <<>>, "no command has been implemented for this language")
     ELSE IF fault = "stdoutPipe" THEN fail(p, <<>>, "failed to pipe command output")
     ELSE IF fault = "stderrPipe" THEN fail(p, <<>>, "failed to pipe command error output")
     ELSE IF fault = "start" THEN fail(p, <<>>, "failed to start client generator")
     ELSE IF fault = "readOut" THEN fail(p1, <<cmd>>, "failed to read output from command")
     ELSE IF fault = "readErr" THEN fail(p2, <<cmd>>, "failed to read error from command")
     ELSE IF run.exit # 0 THEN fail(p3, <<cmd>>, "failed to run generator command")
     ELSE fail(p3, <<cmd>>, "")

\* util.go 206-226, the loop over the staging directory's entries.
RECURSIVE CopyGeneratedLoop(_, _, _, _)
CopyGeneratedLoop(names, src, fault, r) ==
  IF names = <<>> THEN r
  ELSE LET f == Head(names)
           hit == fault.at = f
           r1 == [r EXCEPT !.written = @ \cup {f}]
       IN IF Ext(f) = ".proto"
          THEN CopyGeneratedLoop(Tail(names), src, fault, r)
          ELSE IF hit /\ fault.op = "open"
          THEN [r EXCEPT !.err = "failed to open generated file"]
          ELSE IF ~r.out.exists \/ (hit /\ fault.op = "create")
          THEN [r EXCEPT !.err = "failed to create generated file in output"]
          ELSE IF hit /\ fault.op = "copy"
          THEN [r1 EXCEPT
                  !.out.files = WriteFile(@, f, SubSeq(src[f], 1, Min(fault.n, Len(src[f])))),
                  !.err = "failed to copy generated file to output"]
          ELSE CopyGeneratedLoop(Tail(names), src, fault,
                                 [r1 EXCEPT !.out.files = WriteFile(@, f, src[f])])

\* util.go 195-229
CopyGeneratedFiles(p, s, fault) ==
  LET r0 == [out |-> p.outDir, written |-> {}, err |-> ""]
      r == IF fault.op = "getwd"
           THEN [r0 EXCEPT !.err = "cannot locate current working directory"]
           ELSE IF ~p.protoDir.exists \/ fault.op = "readdir"
           THEN [r0 EXCEPT !.err = "failed to read protobuf directory"]
           ELSE CopyGeneratedLoop(ReadDir(p.protoDir, StagingOrder(s)), p.protoDir.files,
                                  fault, r0)
  IN [p |-> [p EXCEPT !.outDir = r.out], written |-> r.written, err |-> r.err]

(***************************************************************************)
(* The environment of a run                                                *)
(***************************************************************************)
GenNames(s) == {<<s, "pb", "go">>, <<s, "twirp", "go">>}

\* A repository with one definition on each side, and one without a proto
\* directory.
PlainTree ==
  TreeOf(DirOf(<<"a", "proto">> :> <<0>>), DirOf(<<"b", "proto">> :> <<1>>))
BareTree == TreeOf(NoDir, NoDir)

\* A compiler run: what it prints, its exit status, the files it writes.
Runs(streams, files) ==
  [stdout : streams, stderr : streams, exit : {0, 1}, files : files]

PlainFiles(s) == <<s, "pb", "go">> :> <<0, 1>> @@ <<s, "twirp", "go">> :> <<1>>

\* Files an output directory holds before the run.
OldFiles(s) ==
  UNION {[ns -> {<<1, 1>>}] : ns \in SUBSET (GenNames(s) \cup {ProtoName(s)})}

\* Every request, against a plain environment.
InitRequests ==
  /\ language \in Languages
  /\ service \in Services
  /\ private \in BOOLEAN
  /\ remote \in {PlainTree, BareTree}
  /\ protoc \in Runs({<<>>, <<1>>}, {PlainFiles(service)})
  /\ outDir = EmptyDir

\* One request, against every repository content of the selected side.
InitRepositories ==
  /\ language = LanguageGo
  /\ service = ServiceCatalog
  /\ private \in BOOLEAN
  /\ \E d \in Dirs(Range(SrcOrder)) \cup {NoDir},
        e \in {NoDir, DirOf(<<"b", "proto">> :> <<1>>)} :
       remote = IF private THEN TreeOf(e, d) ELSE TreeOf(d, e)
  /\ protoc \in Runs({<<>>}, {PlainFiles(service)})
  /\ outDir = EmptyDir

\* One request, against every compiler output and output directory.
InitCompilers ==
  /\ language = LanguageGo
  /\ service = ServiceCatalog
  /\ private = FALSE
  /\ remote = PlainTree
  /\ protoc \in Runs({<<>>}, {d.files : d \in Dirs(GenNames(service))})
  /\ outDir \in {DirOf(f) : f \in OldFiles(service)} \cup {NoDir}

Init ==
  /\ InitRequests \/ InitRepositories \/ InitCompilers
  /\ NoPipes /\ NoMachine
  /\ outDirAtStart = outDir
  /\ pc = "validate"
  /\ err = ""
  /\ exitCode = -1
  /\ logs = <<>>
  /\ tmpDir = FALSE
  /\ protoDir = NoDir
  /\ serviceDir = NoTree
  /\ trace = <<>>
  /\ cleanupCalls = 0
  /\ opened = {}
  /\ written = {}
  /\ launched = <<>>

(***************************************************************************)
(* rootCmd.Run, one action per stage                                       *)
(***************************************************************************)
OnError_NoCleanUp(p, e, rmOk) ==
  LET q == [p EXCEPT !.err = e]
  IN IF e = "" THEN q ELSE Fatalf(q, e)

OnError_Continue(p, e, rmOk) ==
  LET q == [p EXCEPT !.err = e]
  IN IF e = "" THEN q ELSE Printf(CleanUpDirectories(q, rmOk), e, <<>>)

\* A stage's error branch: CleanUpDirectories(tmpDir), then log.Fatalf.
OnError(p, e, rmOk) ==
  LET q == [p EXCEPT !.err = e]
  IN IF e = "" THEN q ELSE Fatalf(CleanUpDirectories(q, rmOk), e)

Validate_LateServiceGate ==
  /\ pc = "validate"
  /\ LET p0 == Enter(Cur, "validate")
         p1 == IF ~IsValidLanguage(language)
               THEN Fatalf(p0, "Client code generation is not supported") ELSE p0
     IN Commit(p1, "mkdirTemp")
  /\ UNCHANGED <<flags, opened, written, launched>>

Validate_PublicGateOnly ==
  /\ pc = "validate"
  /\ LET p0 == Enter(Cur, "validate")
         p1 == IF ~IsValidLanguage(language)
               THEN Fatalf(p0, "Client code generation is not supported") ELSE p0
         p2 == IF ~IsValidPublicService(service)
               THEN Fatalf(p1, "The service does not have a public protobuf defined")
               ELSE p1
     IN Commit(p2, "mkdirTemp")
  /\ UNCHANGED <<flags, opened, written, launched>>

\* root.go 46-59
Validate ==
  /\ pc = "validate"
  /\ LET p0 == Enter(Cur, "validate")
         p1 == IF ~IsValidLanguage(language)
               THEN Fatalf(p0, "Client code generation is not supported") ELSE p0
         p2 == IF ~private /\ ~IsValidPublicService(service)
               THEN Fatalf(p1, "The service does not have a public protobuf defined")
               ELSE p1
         p3 == IF private /\ ~IsValidPrivateService(service)
               THEN Fatalf(p2, "The service does not have a private protobuf defined")
               ELSE p2
     IN Commit(p3, "mkdirTemp")
  /\ UNCHANGED <<flags, opened, written, launched>>

\* root.go 62-68
MkdirTemp ==
  /\ pc = "mkdirTemp"
  /\ \E ok \in BOOLEAN :
       LET p0 == Enter(Cur, "mkdirTemp")
           p1 == IF ok
                 THEN Printf([p0 EXCEPT !.tmpDir = TRUE], "Created temporary directory", <<>>)
                 ELSE Fatalf([p0 EXCEPT !.err = "Cannot create temporary directory"],
                             "Cannot create temporary directory")
       IN Commit(p1, "mkdirProto")
  /\ UNCHANGED <<flags, opened, written, launched>>

\* root.go 70-76
MkdirProto ==
  /\ pc = "mkdirProto"
  /\ \E ok \in BOOLEAN, rmOk \in BOOLEAN :
       LET p0 == Enter(Cur, "mkdirProto")
           p1 == IF ok THEN [p0 EXCEPT !.protoDir = EmptyDir] ELSE p0
       IN Commit(OnError(p1, IF ok THEN "" ELSE "Cannot create protobuf directory", rmOk),
                 "clone")
  /\ UNCHANGED <<flags, opened, written, launched>>

\* root.go 78-83, util.go 78-86
CloneService ==
  /\ pc = "clone"
  /\ \E ok \in BOOLEAN, rmOk \in BOOLEAN, partial \in {NoTree, remote} :
       LET p0 == Enter(Cur, "clone")
           p1 == [p0 EXCEPT !.serviceDir = IF ok THEN remote ELSE partial]
       IN Commit(OnError(p1, IF ok THEN "" ELSE "failed to clone service", rmOk),
                 "copyProtobuf")
  /\ launched' = Append(launched, CloneCmd(service))
  /\ UNCHANGED <<flags, opened, written>>

\* root.go 85-90
CopyProtobufStage ==
  /\ pc = "copyProtobuf"
  /\ \E fault \in CopyFaults(Range(SrcOrder)), rmOk \in BOOLEAN :
       LET r == CopyProtobuf(Enter(Cur, "copyProtobuf"), service, private, fault)
       IN /\ Commit(OnError(r.p, r.err, rmOk), "generate")
          /\ opened' = r.opened
  /\ UNCHANGED <<flags, written, launched>>

\* root.go 92-97
GenerateCodeStage ==
  /\ pc = "generate"
  /\ \E fault \in GenFaults, rmOk \in BOOLEAN :
       LET r == GenerateCode(Enter(Cur, "generate"), language, service, protoc, fault)
       IN /\ Commit(OnError(r.p, r.err, rmOk), "copyGenerated")
          /\ launched' = launched \o r.launched
  /\ UNCHANGED <<flags, opened, written>>

\* root.go 99-104
CopyGeneratedFilesStage ==
  /\ pc = "copyGenerated"
  /\ \E fault \in CopyFaults(Range(StagingOrder(service))), rmOk \in BOOLEAN :
       LET r == CopyGeneratedFiles(Enter(Cur, "copyGenerated"), service, fault)
       IN /\ Commit(OnError(r.p, r.err, rmOk), "deferred")
          /\ written' = r.written
  /\ UNCHANGED <<flags, opened, launched>>

\* root.go 67 and 105: Run returns and its deferred CleanUpDirectories runs;
\* Execute then returns and the process ends with code 0.
Return ==
  /\ pc = "deferred"
  /\ \E rmOk \in BOOLEAN :
       LET p1 == CleanUpDirectories(Cur, rmOk)
       IN Commit(IF p1.exited THEN p1 ELSE [p1 EXCEPT !.exited = TRUE, !.exitCode = 0],
                 "exit")
  /\ UNCHANGED <<flags, opened, written, launched>>

Next ==
  \/ Validate
  \/ MkdirTemp
  \/ MkdirProto
  \/ CloneService
  \/ CopyProtobufStage
  \/ GenerateCodeStage
  \/ CopyGeneratedFilesStage
  \/ Return

Spec == Init /\ [][Next]_vars

(***************************************************************************)
(* Vocabulary of the properties                                            *)
(***************************************************************************)
\* The languages with a compiler profile.
CompilerLanguages == {"golang", "ruby", "python", "javascript"}

\* The service has a definition of the requested visibility.
ServiceGateOpen ==
  \/ ~private /\ IsValidPublicService(service)
  \/ private /\ IsValidPrivateService(service)

FailsAGate == ~IsValidLanguage(language) \/ ~ServiceGateOpen

Validated == pc # "validate"
Rejected == trace = <<"validate">> /\ pc = "exit"
Entered(stage) == stage \in Range(trace)
LastStage == IF trace = <<>> THEN "" ELSE trace[Len(trace)]
Logged(entry) == entry \in Range(logs)
WorkspaceCreated == Logged(Info("Created temporary directory", <<>>))
IsProtoc(cmd) == cmd.prog = "protoc"
HasProtoExt(name) == Len(name) > 1 /\ name[Len(name)] = "proto"

\* C1: a request that fails a validation gate is rejected by the validation
\* stage, the process ends with code 1, and in no state of that run has a
\* workspace been created, a file been opened or written, the output
\* directory changed, a fetch or any other subprocess been started, or a
\* clean-up been called.
C1_RejectedBeforeAnyResource ==
  FailsAGate =>
    /\ pc \in {"validate", "exit"}
    /\ Validated => Rejected /\ exitCode = 1 /\ Len(logs) = 1 /\ logs[1].fatal
    /\ ~tmpDir /\ ~protoDir.exists /\ ~serviceDir.exists
    /\ ~WorkspaceCreated
    /\ launched = <<>>
    /\ opened = {} /\ written = {}
    /\ outDir = outDirAtStart
    /\ cleanupCalls = 0

\* C1 witness: a public request for jabba, which has no public definition,
\* has been rejected.
C1_Witness ==
  /\ service = "jabba" /\ ~private /\ language = "golang"
  /\ Rejected /\ exitCode = 1

\* C2: CleanUpDirectories is never called twice and never without a created
\* workspace, and a process that has ended after creating its workspace has
\* called it exactly once, whichever stage ended the run.
C2_ExactlyOneCleanUp ==
  /\ cleanupCalls <= 1
  /\ ~WorkspaceCreated => cleanupCalls = 0
  /\ pc = "exit" /\ WorkspaceCreated => cleanupCalls = 1
  /\ cleanupCalls = Cardinality({i \in DOMAIN trace : trace[i] = "destroy"})

\* C2 witness: a run that failed in collection has ended with one clean-up.
C2_Witness ==
  /\ pc = "exit" /\ WorkspaceCreated /\ cleanupCalls = 1
  /\ Entered("copyGenerated") /\ err # ""

\* C3: with a supported language, the request passes the validation stage if
\* and only if it is public and the service has a public definition, or
\* private and the service has a private definition.
C3_ServiceGate ==
  Validated /\ IsValidLanguage(language) =>
    (~Rejected <=> ServiceGateOpen)

\* C3 witness: search has only a public definition; a private request for
\* it has been rejected.
C3_Witness ==
  /\ service = "search" /\ private /\ IsValidLanguage(language)
  /\ Rejected

\* The request of scenario A, with the language as the claim writes it and
\* as the flag knows it.
ScenarioA(lang) == language = lang /\ service = "catalog" /\ ~private

\* What scenario A promises of a run.
ScenarioAHolds ==
  /\ Validated => ~Rejected
  /\ LastStage = "copyProtobuf" /\ err = "" => pc = "generate"
  /\ \A i \in DOMAIN launched :
       IsProtoc(launched[i]) =>
         /\ launched[i].flags = <<"--twirp_out=paths=source_relative",
                                  "--go_out=paths=source_relative", "--proto_path">>
         /\ launched[i].input = <<"catalog", "proto">>
  /\ pc = "copyGenerated" => \E i \in DOMAIN launched : IsProtoc(launched[i])
  /\ pc = "deferred" =>
       /\ \A f \in DOMAIN protoc.files :
            f \in DOMAIN outDir.files /\ outDir.files[f] = protoc.files[f]
       /\ <<"catalog", "proto">> \notin written
       /\ <<"catalog", "proto">> \in DOMAIN outDir.files
            <=> <<"catalog", "proto">> \in DOMAIN outDirAtStart.files

C5_JavaHasNoCommand ==
  /\ language = "java" /\ ServiceGateOpen /\ Validated => ~Rejected
  /\ language = "java" /\ Entered("generate") =>
       /\ err = "no command has been implemented for this language"
       /\ pc = "exit" /\ exitCode = 1
       /\ ~Entered("copyGenerated")
  /\ language \notin CompilerLanguages =>
       \A i \in DOMAIN launched : ~IsProtoc(launched[i])

\* C5 witness: a java run has gone through workspace creation, fetch and
\* extraction and has ended in generation.
C5_Witness ==
  /\ language = "java" /\ Entered("generate")
  /\ trace = <<"validate", "mkdirTemp", "mkdirProto", "clone", "copyProtobuf",
               "generate", "destroy">>
  /\ Logged(Fatal("no command has been implemented for this language"))

\* The source subdirectory CopyProtobuf reads for this request.
SelectedDir == IF private THEN remote.private ELSE remote.public

\* C6 as stated: when extraction has returned success, the staging directory
\* holds exactly one file, <service>.proto, whatever the source subdirectory
\* holds.
C6_ExactlyOneCanonicalFile ==
  LastStage = "copyProtobuf" /\ err = "" =>
    DOMAIN protoDir.files = {<<service, "proto">>}

\* C7: after a successful collection, of every entry of the staging
\* directory: one with the extension .proto has not been written to the
\* output directory by the run, any other is in the output directory under
\* the same name with the same content.
C7_CollectedVerbatim ==
  LastStage = "copyGenerated" /\ err = "" =>
    \A f \in DOMAIN protoDir.files :
      IF HasProtoExt(f)
      THEN f \notin written
      ELSE /\ f \in written
           /\ f \in DOMAIN outDir.files
           /\ outDir.files[f] = protoDir.files[f]

\* C7 witness: a collection has replaced a longer file the output directory
\* held and has passed over the staged catalog.proto.
C7_Witness ==
  /\ LastStage = "copyGenerated" /\ err = ""
  /\ <<service, "proto">> \in DOMAIN protoDir.files
  /\ \E f \in written :
       /\ f \in DOMAIN outDirAtStart.files
       /\ Len(outDirAtStart.files[f]) > Len(outDir.files[f])

\* C8: extraction, whether it succeeds or fails, opens no source entry
\* without the extension .proto, and after it the staging directory (empty
\* before) holds no file but <service>.proto, whose content, when extraction
\* succeeded, is the content of a .proto entry of the source subdirectory.
C8_OnlyProtoStaged ==
  /\ \A f \in opened : HasProtoExt(f) /\ f \in DOMAIN SelectedDir.files
  /\ Entered("copyProtobuf") /\ ~Entered("generate") =>
       DOMAIN protoDir.files \subseteq {<<service, "proto">>}
  /\ LastStage = "copyProtobuf" /\ <<service, "proto">> \in DOMAIN protoDir.files =>
       \E f \in DOMAIN SelectedDir.files :
         HasProtoExt(f) /\ protoDir.files[<<service, "proto">>] = SelectedDir.files[f]

\* C8 witness: extraction has succeeded on a subdirectory holding README.md
\* and a.proto with different contents.
C8_Witness ==
  /\ LastStage = "copyProtobuf" /\ err = ""
  /\ DOMAIN SelectedDir.files = {<<"README", "md">>, <<"a", "proto">>}
  /\ SelectedDir.files[<<"README", "md">>] # SelectedDir.files[<<"a", "proto">>]
  /\ opened = {<<"a", "proto">>}

StageOrder ==
  <<"validate", "mkdirTemp", "mkdirProto", "clone", "copyProtobuf", "generate",
    "copyGenerated">>

\* The stages in order up to the one at position k.
StagesTo(k) == SubSeq(StageOrder, 1, k)

\* C9: the stages run in the order validate, create workspace (MkdirTemp,
\* Mkdir proto), fetch, extract, generate, collect, destroy; a stage is
\* entered only when every stage before it has returned success; after a
\* stage has failed nothing runs but the destruction of the workspace, and
\* the process ends.
C9_StageOrder ==
  /\ \E k \in 0..Len(StageOrder) :
       \/ trace = StagesTo(k)
       \/ k >= 3 /\ trace = Append(StagesTo(k), "destroy")
  /\ pc # "exit" =>
       /\ err = ""
       /\ \/ pc = "deferred" /\ trace = StageOrder
          \/ \E k \in 1..Len(StageOrder) :
               pc = StageOrder[k] /\ trace = StagesTo(k - 1)
  /\ pc = "exit" /\ exitCode = 0 => trace = Append(StageOrder, "destroy") /\ err = ""
  /\ err # "" => pc = "exit" /\ exitCode = 1

\* C9 witness: the fetch has failed; the run went from it to destruction.
C9_Witness ==
  /\ trace = <<"validate", "mkdirTemp", "mkdirProto", "clone", "destroy">>
  /\ pc = "exit" /\ err = "failed to clone service"

\* C10 as stated: when a stage has failed, the process ends with that
\* stage's message in the log, whatever the clean-up before it did.
C10_StageFailureLogged ==
  pc = "exit" /\ err # "" => Logged(Fatal(err))


\* GenerateCode has started the compiler.
Started == \E i \in DOMAIN launched : IsProtoc(launched[i])

\* GenerateCode has returned nil: the run went on to collection.
GenerateSucceeded == Entered("generate") /\ (pc = "copyGenerated" \/ Entered("copyGenerated"))

\* GenerateCode has returned the error of a failed read of a pipe.
ReadFailed ==
  /\ ~GenerateSucceeded
  /\ err \in {"failed to read output from command", "failed to read error from command"}

\* C11 as stated: for a language with a compiler profile, generation succeeds
\* if and only if the compiler started and exits with status zero.
C11_Original ==
  Entered("generate") /\ language \in CompilerLanguages =>
    (GenerateSucceeded <=> Started /\ protoc.exit = 0)

\* C11 amended: for a language with a compiler profile, generation succeeds
\* if and only if the compiler started, both pipes were read to their end
\* without a read error and the compiler exits with status zero; what the
\* compiler printed, nothing or something, on either stream, is logged and
\* does not change the result.
C11_ExitStatusDecides ==
  Entered("generate") /\ language \in CompilerLanguages =>
    /\ GenerateSucceeded <=> Started /\ ~ReadFailed /\ protoc.exit = 0
    /\ Started /\ ~ReadFailed /\ Len(protoc.stdout) > 0 =>
         Logged(Info("", protoc.stdout))
    /\ Started /\ ~ReadFailed /\ Len(protoc.stderr) > 0 =>
         Logged(Info("Generator encountered error", protoc.stderr))

\* C11 witness: the compiler printed on both streams and exited with status
\* zero, and generation succeeded.
C11_Witness ==
  /\ GenerateSucceeded /\ language = "ruby"
  /\ Len(protoc.stdout) > 0 /\ Len(protoc.stderr) > 0 /\ protoc.exit = 0


(***************************************************************************)
(* CleanUpDirectories on its own: a caller that calls it on one path, time *)
(* and again, the path being absent, a partly built workspace or a whole   *)
(* one.                                                                    *)
(***************************************************************************)
InitDestroy ==
  /\ language = LanguageGo /\ service = ServiceCatalog /\ private = FALSE
  /\ remote = PlainTree
  /\ protoc = [stdout |-> <<>>, stderr |-> <<>>, exit |-> 0, files |-> PlainFiles(service)]
  /\ outDir = EmptyDir /\ outDirAtStart = outDir
  /\ pc = "caller" /\ err = "" /\ exitCode = -1 /\ logs = <<>>
  /\ tmpDir \in BOOLEAN
  /\ protoDir \in IF tmpDir THEN Dirs(Range(StagingOrder(service))) \cup {NoDir} ELSE {NoDir}
  /\ serviceDir \in IF tmpDir THEN {NoTree, BareTree, PlainTree} ELSE {NoTree}
  /\ trace = <<>> /\ cleanupCalls = 0
  /\ opened = {} /\ written = {} /\ launched = <<>>
  /\ NoPipes /\ NoMachine

\* util.go 72-76, called by the caller; os.RemoveAll of a path that does
\* not exist returns nil.
CallCleanUp ==
  /\ pc = "caller"
  /\ cleanupCalls < MaxCalls
  /\ \E rmOk \in IF tmpDir THEN BOOLEAN ELSE {TRUE} :
       Commit(CleanUpDirectories(Cur, rmOk), "caller")
  /\ UNCHANGED <<flags, opened, written, launched>>

NextDestroy == CallCleanUp

SpecDestroy == InitDestroy /\ [][NextDestroy]_vars

\* C12 as stated: every call of the destroy operation, on an absent path, on
\* a partly built workspace or after an earlier call, returns to its caller,
\* which goes on running; the path is then absent, or the failure of the
\* removal has been reported.
C12_DestroyReturnsToCaller ==
  cleanupCalls > 0 =>
    /\ pc = "caller" /\ exitCode = -1
    /\ ~tmpDir \/ \E i \in DOMAIN logs : logs[i].text = "Could not remove directory"


\* C13 as stated: when the process has ended, the workspace it created no
\* longer exists.
C13_Original == pc = "exit" => ~tmpDir /\ ~protoDir.exists /\ ~serviceDir.exists

\* C13 amended: when the process has ended, the workspace it created no
\* longer exists, unless os.RemoveAll itself failed; the process has then
\* logged the removal error as its last message and ended with code 1.
C13_NoWorkspaceLeftUnlessRemovalFailed ==
  pc = "exit" =>
    \/ ~tmpDir /\ ~protoDir.exists /\ ~serviceDir.exists
    \/ /\ logs[Len(logs)] = Fatal("Could not remove directory")
       /\ exitCode = 1
       /\ cleanupCalls = 1

\* C13 witness: a run whose extraction failed has ended, and its workspace,
\* which held the clone, is gone.
C13_Witness ==
  /\ pc = "exit" /\ WorkspaceCreated /\ ~tmpDir
  /\ err = "cannot copy protobuf file"
  /\ Logged(Fatal("cannot copy protobuf file"))


\* The .proto entries of the selected source subdirectory, and the one
\* os.ReadDir lists last.
ProtoEntries == {f \in DOMAIN SelectedDir.files : HasProtoExt(f)}
Position(f) == CHOOSE i \in DOMAIN SrcOrder : SrcOrder[i] = f
LastProtoEntry ==
  CHOOSE f \in ProtoEntries : \A g \in ProtoEntries : Position(g) <= Position(f)

\* C14: when the selected source subdirectory holds several .proto files and
\* extraction has succeeded, each of them has been opened and copied to the
\* one destination <service>.proto, and that file's content is exactly the
\* content of the .proto entry listed last: nothing of an earlier file is
\* left, however long it was.
C14_LastDefinitionWins ==
  LastStage = "copyProtobuf" /\ err = "" /\ Cardinality(ProtoEntries) > 1 =>
    /\ opened = ProtoEntries
    /\ DOMAIN protoDir.files = {<<service, "proto">>}
    /\ protoDir.files[<<service, "proto">>] = SelectedDir.files[LastProtoEntry]

\* C14 witness: a.proto is longer than b.proto, extraction has succeeded and
\* the staged file has b.proto's content.
C14_Witness ==
  /\ LastStage = "copyProtobuf" /\ err = ""
  /\ ProtoEntries = {<<"a", "proto">>, <<"b", "proto">>}
  /\ Len(SelectedDir.files[<<"a", "proto">>]) > Len(SelectedDir.files[<<"b", "proto">>])
  /\ protoDir.files[<<service, "proto">>] = SelectedDir.files[<<"b", "proto">>]


\* C15 as stated: whichever system call of the extraction fails, CopyProtobuf
\* returns its error with the staging directory holding no half-written
\* <service>.proto: the file is absent, or has the whole content of one of
\* the source definition files.
C15_NoPartialCanonicalFile ==
  pc = "copyProtobuf" =>
    \A fault \in CopyFaults(Range(SrcOrder)) :
      LET r == CopyProtobuf(Cur, service, private, fault)
          staged == r.p.protoDir.files
          dir == ServiceProtoDir(serviceDir, private)
      IN r.err # "" =>
           \/ <<service, "proto">> \notin DOMAIN staged
           \/ \E f \in DOMAIN dir.files :
                HasProtoExt(f) /\ staged[<<service, "proto">>] = dir.files[f]


\* A fatal message has been logged.
FatalLogged == \E i \in DOMAIN logs : logs[i].fatal

\* Validation and every stage, the removal of the workspace included, have
\* succeeded.
AllSucceeded ==
  /\ trace = Append(StageOrder, "destroy")
  /\ err = ""
  /\ ~tmpDir

\* C16: the process ends with code 0 exactly when validation and every stage
\* succeeded, and with code 1 after any fatal error: a rejected request, a
\* failed stage, a failed removal of the workspace.
C16_ExitCode ==
  /\ pc = "exit" <=> exitCode # -1
  /\ pc = "exit" =>
       /\ exitCode \in {0, 1}
       /\ exitCode = 0 <=> AllSucceeded
       /\ exitCode = 1 <=> FatalLogged
       /\ Rejected \/ err # "" \/ tmpDir => exitCode = 1

\* C16 witness: a run has ended with code 0 after collecting two files.
C16_Witness ==
  /\ pc = "exit" /\ exitCode = 0
  /\ Cardinality(written) = 2 /\ ~FatalLogged


\* C18: only the collection stage writes to the output directory: as long
\* as a run has not entered collection, and so when it has ended in
\* validation, workspace creation, fetch, extraction or generation, the
\* output directory is as the run found it.
C18_OutputUntouchedBeforeCollection ==
  ~Entered("copyGenerated") => outDir = outDirAtStart /\ written = {}

\* C18 witness: the compiler wrote a file into the staging directory and
\* failed; the run has ended and the output directory still holds its old
\* files.
C18_Witness ==
  /\ pc = "exit" /\ err = "failed to run generator command"
  /\ DOMAIN protoc.files # {}
  /\ DOMAIN outDirAtStart.files # {}
  /\ outDir = outDirAtStart


(***************************************************************************)
(* GenerateCode and the compiler it started, util.go 159-190.  The two are *)
(* joined by two pipes of PipeCap bytes.  The compiler makes the writes of *)
(* its schedule, one byte each, to its standard output or standard error,  *)
(* and then exits, which closes the write ends; a write to a full pipe     *)
(* waits.  GenerateCode reads standard output to end-of-file, then         *)
(* standard error to end-of-file, then waits for the exit.                 *)
(***************************************************************************)
Streams == {"out", "err"}
Schedules == UNION {[1..n -> Streams] : n \in 0..MaxWrites}

\* The bytes a schedule sends to a stream.
Sent(sched, s) == [i \in 1..Cardinality({j \in DOMAIN sched : sched[j] = s}) |-> 0]

\* util.go 168: the state after protocCmd.Start() has succeeded.
InitPipes ==
  /\ language = LanguageGo /\ service = ServiceCatalog /\ private = FALSE
  /\ remote = PlainTree
  /\ child \in Schedules
  /\ protoc \in {[stdout |-> Sent(child, "out"), stderr |-> Sent(child, "err"),
                  exit |-> e, files |-> PlainFiles(service)] : e \in {0, 1}}
  /\ outDir = EmptyDir /\ outDirAtStart = outDir
  /\ pc = "generate" /\ err = "" /\ exitCode = -1 /\ logs = <<>>
  /\ tmpDir = TRUE
  /\ protoDir = DirOf(ProtoName(service) :> <<0>>)
  /\ serviceDir = remote
  /\ trace = StagesTo(6) /\ cleanupCalls = 0
  /\ opened = {} /\ written = {}
  /\ launched = <<CloneCmd(service), ProtocCmd(language, service)>>
  /\ outBuf = 0 /\ errBuf = 0 /\ childDone = FALSE /\ gpc = "readOut"
  /\ NoMachine

\* What a step of the compiler or of a read leaves alone.
pipeFrame ==
  <<language, service, private, remote, protoc, outDir, pc, exitCode, tmpDir,
    protoDir, serviceDir, trace, cleanupCalls, outDirAtStart, opened, written,
    launched, machineVars>>

\* The compiler writes one byte; the write waits while the pipe is full.
ChildWrite ==
  /\ ~childDone /\ child # <<>>
  /\ \/ Head(child) = "out" /\ outBuf < PipeCap
        /\ outBuf' = outBuf + 1 /\ UNCHANGED errBuf
     \/ Head(child) = "err" /\ errBuf < PipeCap
        /\ errBuf' = errBuf + 1 /\ UNCHANGED outBuf
  /\ child' = Tail(child)
  /\ UNCHANGED <<pipeFrame, childDone, gpc, err, logs>>

\* The compiler has made all its writes and exits.
ChildExit ==
  /\ ~childDone /\ child = <<>>
  /\ childDone' = TRUE
  /\ UNCHANGED <<pipeFrame, child, outBuf, errBuf, gpc, err, logs>>

\* util.go 173: a read inside ioutil.ReadAll(out) takes bytes from the pipe.
ReadOut ==
  /\ gpc = "readOut" /\ outBuf > 0
  /\ \E n \in 1..outBuf : outBuf' = outBuf - n
  /\ UNCHANGED <<pipeFrame, child, errBuf, childDone, gpc, err, logs>>

\* util.go 173-178: end-of-file, the pipe is empty and its write end closed.
EofOut ==
  /\ gpc = "readOut" /\ outBuf = 0 /\ childDone
  /\ gpc' = "readErr"
  /\ logs' = IF Len(protoc.stdout) > 0 THEN Append(logs, Info("", protoc.stdout)) ELSE logs
  /\ UNCHANGED <<pipeFrame, child, outBuf, errBuf, childDone, err>>

\* util.go 180: a read inside io.ReadAll(errOut).
ReadErr ==
  /\ gpc = "readErr" /\ errBuf > 0
  /\ \E n \in 1..errBuf : errBuf' = errBuf - n
  /\ UNCHANGED <<pipeFrame, child, outBuf, childDone, gpc, err, logs>>

\* util.go 180-185
EofErr ==
  /\ gpc = "readErr" /\ errBuf = 0 /\ childDone
  /\ gpc' = "wait"
  /\ logs' = IF Len(protoc.stderr) > 0
             THEN Append(logs, Info("Generator encountered error", protoc.stderr))
             ELSE logs
  /\ UNCHANGED <<pipeFrame, child, outBuf, errBuf, childDone, err>>

\* util.go 187-192: protocCmd.Wait() returns once the compiler has exited.
Wait ==
  /\ gpc = "wait" /\ childDone
  /\ gpc' = "returned"
  /\ err' = IF protoc.exit # 0 THEN "failed to run generator command" ELSE ""
  /\ UNCHANGED <<pipeFrame, child, outBuf, errBuf, childDone, logs>>

NextPipes ==
  ChildWrite \/ ChildExit \/ ReadOut \/ EofOut \/ ReadErr \/ EofErr \/ Wait

\* Both processes run whenever one of them can take a step.
SpecPipes == InitPipes /\ [][NextPipes]_vars /\ WF_vars(NextPipes)

\* C19 as stated: whatever the compiler writes to its two streams, and in
\* whatever order, GenerateCode eventually returns.
C19_EventuallyReturns == <>(gpc = "returned")

\* The state in which neither side can move: GenerateCode is reading a
\* standard output that is empty and still open, the compiler is waiting to
\* write to a standard error that is full.
C19_Stuck ==
  /\ gpc = "readOut" /\ outBuf = 0 /\ ~childDone
  /\ child # <<>> /\ Head(child) = "err" /\ errBuf = PipeCap


(***************************************************************************)
(* Two runs of the command on one machine, root.go 62-104.  Each run is a  *)
(* process of its own: its flags, its tmpDir and its position are its own, *)
(* and the runs meet only in the file system.  A path is a sequence of     *)
(* names; every path a run reads, writes or removes is recorded.           *)
(***************************************************************************)
Procs == {"r1", "r2"}
TempNames == {<<"client-generation-1">>, <<"client-generation-2">>}
NoName == <<>>

TempRoot == << <<"tmp">> >>
OutputDir == << <<"cwd">>, <<"out">> >>
Join(path, name) == Append(path, name)
Inside(path, dir) == Len(path) >= Len(dir) /\ SubSeq(path, 1, Len(dir)) = dir

\* root.go 63, 71; util.go 79, 89-94, 113
TmpDirPath(name) == Join(TempRoot, name)
ProtoDirPath(tmp) == Join(tmp, <<"proto">>)
SrcPath(tmp, s) == Join(tmp, <<s>>)
ServiceProtoPath(src, priv) ==
  Join(Join(src, <<"proto">>), IF priv THEN <<"private">> ELSE <<"public">>)
CanonicalPath(pd, s) == Join(pd, ProtoName(s))

\* What git clone leaves under src.
ClonedPaths(src) ==
  {src, Join(src, <<"proto">>)}
    \cup {ServiceProtoPath(src, v) : v \in BOOLEAN}
    \cup {Join(ServiceProtoPath(src, FALSE), <<"a", "proto">>),
          Join(ServiceProtoPath(src, TRUE), <<"b", "proto">>)}

\* The entries of a directory.
Entries(dir, paths) == {p \in paths : Len(p) = Len(dir) + 1 /\ Inside(p, dir)}

RemoveAll_Parent(dir, paths) == {p \in paths : Inside(p, SubSeq(dir, 1, Len(dir) - 1))}

\* os.RemoveAll(dir): dir and everything below it.
RemoveAll(dir, paths) == {p \in paths : Inside(p, dir)}

Access(op, paths) == {[op |-> op, path |-> p] : p \in paths}

InitRuns ==
  /\ language = LanguageGo /\ service = ServiceCatalog /\ private = FALSE
  /\ remote = PlainTree
  /\ protoc = [stdout |-> <<>>, stderr |-> <<>>, exit |-> 0, files |-> PlainFiles(service)]
  /\ outDir = EmptyDir /\ outDirAtStart = outDir
  /\ pc = "validate" /\ err = "" /\ exitCode = -1 /\ logs = <<>>
  /\ tmpDir = FALSE /\ protoDir = NoDir /\ serviceDir = NoTree
  /\ trace = <<>> /\ cleanupCalls = 0
  /\ opened = {} /\ written = {} /\ launched = <<>>
  /\ NoPipes
  /\ runs \in [Procs -> {[pc |-> "mkdirTemp", dir |-> NoName, service |-> ServiceCatalog,
                          private |-> v, touched |-> {}] : v \in BOOLEAN}]
  /\ disk = {TempRoot, OutputDir}

\* The run's step: its new position, the accesses it made, the new disk.
Moved(r, next, accesses, paths) ==
  /\ runs' = [runs EXCEPT ![r].pc = next, ![r].touched = @ \cup accesses]
  /\ disk' = paths
  /\ UNCHANGED <<runVars, pipeVars>>

\* util.CleanUpDirectories(tmpDir), then the exit; util.go 72-76.
Destroyed(r, accesses, paths) ==
  \E rmOk \in BOOLEAN :
    LET tmp == TmpDirPath(runs[r].dir)
        gone == IF runs[r].dir = NoName THEN {} ELSE RemoveAll(tmp, paths)
    IN Moved(r, "exit", accesses \cup Access("remove", gone \cup {tmp}),
             IF rmOk THEN paths \ gone ELSE paths)

\* root.go 62-68: os.MkdirTemp creates a directory that did not exist.
RunMkdirTemp(r) ==
  /\ runs[r].pc = "mkdirTemp"
  /\ \/ \E n \in TempNames :
          /\ TmpDirPath(n) \notin disk
          /\ runs' = [runs EXCEPT ![r].pc = "mkdirProto", ![r].dir = n,
                                  ![r].touched = @ \cup Access("write", {TmpDirPath(n)})]
          /\ disk' = disk \cup {TmpDirPath(n)}
          /\ UNCHANGED <<runVars, pipeVars>>
     \/ Moved(r, "exit", {}, disk)

\* root.go 70-76
RunMkdirProto(r) ==
  /\ runs[r].pc = "mkdirProto"
  /\ LET pd == ProtoDirPath(TmpDirPath(runs[r].dir))
     IN \/ Moved(r, "clone", Access("write", {pd}), disk \cup {pd})
        \/ Destroyed(r, {}, disk)

\* root.go 78-83, util.go 78-86
RunClone(r) ==
  /\ runs[r].pc = "clone"
  /\ LET new == ClonedPaths(SrcPath(TmpDirPath(runs[r].dir), runs[r].service))
     IN \/ Moved(r, "copyProtobuf", Access("write", new), disk \cup new)
        \/ Destroyed(r, {}, disk)

\* root.go 85-90, util.go 88-126
RunCopyProtobuf(r) ==
  /\ runs[r].pc = "copyProtobuf"
  /\ LET tmp == TmpDirPath(runs[r].dir)
         spd == ServiceProtoPath(SrcPath(tmp, runs[r].service), runs[r].private)
         srcs == {p \in Entries(spd, disk) : Ext(p[Len(p)]) = ".proto"}
         dst == CanonicalPath(ProtoDirPath(tmp), runs[r].service)
         reads == Access("read", {spd} \cup srcs)
     IN \/ Moved(r, "generate", reads \cup Access("write", {dst}), disk \cup {dst})
        \/ Destroyed(r, Access("read", {spd}), disk)

\* root.go 92-97, util.go 144-193: protoc reads and writes in protoDir.
RunGenerate(r) ==
  /\ runs[r].pc = "generate"
  /\ LET pd == ProtoDirPath(TmpDirPath(runs[r].dir))
         in == CanonicalPath(pd, runs[r].service)
         new == {Join(pd, f) : f \in GenNames(runs[r].service)}
     IN \/ Moved(r, "copyGenerated",
                 Access("read", {pd, in}) \cup Access("write", new), disk \cup new)
        \/ Destroyed(r, Access("read", {pd, in}), disk)

\* root.go 99-104, util.go 195-229
RunCopyGenerated(r) ==
  /\ runs[r].pc = "copyGenerated"
  /\ LET pd == ProtoDirPath(TmpDirPath(runs[r].dir))
         srcs == {p \in Entries(pd, disk) : Ext(p[Len(p)]) # ".proto"}
         new == {Join(OutputDir, p[Len(p)]) : p \in srcs}
     IN \/ Moved(r, "return",
                 Access("read", {pd} \cup srcs) \cup Access("write", new), disk \cup new)
        \/ Destroyed(r, Access("read", {pd}), disk)

\* root.go 67, 105: the deferred util.CleanUpDirectories(tmpDir).
RunReturn(r) ==
  /\ runs[r].pc = "return"
  /\ Destroyed(r, {}, disk)

NextRuns ==
  \E r \in Procs :
    \/ RunMkdirTemp(r) \/ RunMkdirProto(r) \/ RunClone(r) \/ RunCopyProtobuf(r)
    \/ RunGenerate(r) \/ RunCopyGenerated(r) \/ RunReturn(r)

SpecRuns == InitRuns /\ [][NextRuns]_vars

\* The two runs hold distinct workspace directories.
DistinctWorkspaces(r, o) ==
  /\ r # o
  /\ runs[r].dir # NoName /\ runs[o].dir # NoName
  /\ runs[r].dir # runs[o].dir

\* C17: for any interleaving of two runs that were allocated distinct
\* workspace directories, no run reads, writes or removes a path inside the
\* other run's workspace, and the only paths both runs touch lie in the
\* output directory.
C17_WorkspacesDisjoint ==
  \A r, o \in Procs :
    DistinctWorkspaces(r, o) =>
      /\ \A a \in runs[r].touched : ~Inside(a.path, TmpDirPath(runs[o].dir))
      /\ \A a \in runs[r].touched, b \in runs[o].touched :
           a.path = b.path => Inside(a.path, OutputDir)

\* Both runs have gone through every stage side by side, each in its own
\* workspace, and both have written into the output directory.
C17_Witness ==
  /\ \A r \in Procs : runs[r].pc = "exit"
  /\ DistinctWorkspaces("r1", "r2")
  /\ \A r \in Procs :
       /\ \E a \in runs[r].touched : a.op = "write" /\ Inside(a.path, OutputDir)
       /\ \E a \in runs[r].touched :
            a.op = "remove" /\ a.path = CanonicalPath(ProtoDirPath(TmpDirPath(runs[r].dir)), runs[r].service)

====
